---- MODULE Spec2Model ----
(***************************************************************************)
(* Model of tefla/core/prediction.py (predictors and the ensembler) and of *)
(* the batching of tefla/core/gan_metrics.py (classifier_score and         *)
(* frechet_classifier_distance).                                           *)
(*                                                                         *)
(* Spec     : one EnsemblePredictor.predict call over a list of member     *)
(*            predictors, every member running PredictSessionMixin.predict.*)
(* SpecGan  : one classifier_score / frechet_classifier_distance call.     *)
(***************************************************************************)
EXTENDS Integers, Sequences, FiniteSets, TLC

\* ------------------------------------------------------------------ bounds
MaxPredictors == 2
MaxTransforms == 2
MaxInputs == 2
BatchSize == 1
MaxImages == 4
MaxBatches == 3

\* ------------------------------------------------- values of the predictors
\* xform=None, the default of OneCropPredictor._real_predict
NoXform == 0 - 1
\* the identity transform (a transform that leaves the image unchanged)
IdentityXform == 0
\* crop_bbox=None, the default of OneCropPredictor._real_predict
NoBbox == 0
\* the standardizer's color_vec before any set_tta_args call
NoColorVec == 0 - 1
\* number of bounding boxes util.get_bbox_10crop returns
TenCrop == 10
\* CropPredictor's default number_of_crops
DefaultCrops == 10

VARIABLES
  predictors,            \* EnsemblePredictor.predictors: the member list
  X,                     \* the input array of the call (a sequence of images)
  ensemble_type,         \* the ensemble_type argument
  pc,                    \* position of the (single) thread of control
  i,                     \* index of the member p of `for p in self.predictors`
  multiple_predictions,  \* EnsemblePredictor.predict's list
  sess_open,             \* number of tf.Session objects currently open
  da_params,             \* QuasiPredictor._real_predict: da_params
  tfs,                   \* QuasiPredictor._real_predict: tfs
  color_vecs,            \* QuasiPredictor._real_predict: color_vecs
  bboxs,                 \* CropPredictor._real_predict: bboxs
  k,                     \* loop index of the Quasi / Crop loop
  inner_predictions,     \* multiple_predictions of Quasi/CropPredictor._real_predict
  xform,                 \* OneCropPredictor._real_predict: xform
  crop_bbox,             \* OneCropPredictor._real_predict: crop_bbox
  b,                     \* number of batches the prediction iterator has yielded
  batch,                 \* the batch the iterator yielded last (the loop's X)
  data_predictions,      \* OneCropPredictor._real_predict: data_predictions
  runs,                  \* history: sess.run calls made by the current _real_predict pass
  ret,                   \* value returned by the function that returned last
  error,                 \* the exception in flight or raised ("" when none)
  tta,                   \* the standardizer's color_vec (set by set_tta_args)
  log,                   \* history: the calls made on sessions, standardizer and passes
  images,                \* gan_metrics: images / real_images
  generated_images,      \* gan_metrics: generated_images
  num_batches,           \* gan_metrics: num_batches
  gpc,                   \* gan_metrics: position in the score call
  elems,                 \* gan_metrics: the stacked chunks handed to map_fn
  mapped,                \* gan_metrics: map_fn's outputs so far
  gi,                    \* gan_metrics: index of the chunk map_fn runs next
  logits,                \* classifier_score: logits
  real_a,                \* frechet_classifier_distance: real_a
  gen_a,                 \* frechet_classifier_distance: gen_a
  gerror                 \* gan_metrics: the error raised ("" when none)

ensVars == <<predictors, X, ensemble_type, i, multiple_predictions>>
quasiVars == <<da_params, tfs, color_vecs>>
loopVars == <<k, inner_predictions>>
passVars == <<xform, crop_bbox, b, batch, data_predictions, runs>>
ganVars == <<images, generated_images, num_batches, gpc, elems, mapped, gi, logits, real_a,
            gen_a, gerror>>
predVars == <<predictors, X, ensemble_type, pc, i, multiple_predictions, sess_open,
              da_params, tfs, color_vecs, bboxs, k, inner_predictions, xform, crop_bbox,
              b, batch, data_predictions, runs, ret, error, tta, log>>
vars == <<predVars, ganVars>>

\* ---------------------------------------------------------------- numbers
\* Prediction values are exact rationals <<numerator, denominator>>.
Abs(n) == IF n < 0 THEN 0 - n ELSE n

RECURSIVE Gcd(_, _)
Gcd(m, n) == IF n = 0 THEN m ELSE Gcd(n, m % n)

Rat(n, d) ==
  LET g == Gcd(Abs(n), Abs(d))
  IN  IF d < 0 THEN <<(0 - n) \div g, (0 - d) \div g>> ELSE <<n \div g, d \div g>>

RatAdd(p, q) == Rat(p[1] * q[2] + q[1] * p[2], p[2] * q[2])

RatDivInt(p, n) == Rat(p[1], p[2] * n)

RECURSIVE RatSum(_)
RatSum(s) == IF s = <<>> THEN <<0, 1>> ELSE RatAdd(s[1], RatSum(Tail(s)))

RECURSIVE Flatten(_)
Flatten(ss) == IF ss = <<>> THEN <<>> ELSE ss[1] \o Flatten(Tail(ss))

\* ----------------------------------------------------------------- values
\* A value a predictor returns: an array (rows), None, or the nan scalar.
Arr(rows) == [tag |-> "array", rows |-> rows]
None == [tag |-> "None", rows |-> <<>>]
NaN == [tag |-> "nan", rows |-> <<>>]

Event(ev, m, a1, a2, a3) == [ev |-> ev, m |-> m, a |-> a1, b |-> a2, c |-> a3]

\* --------------------------------------------------- external collaborators
\* The prediction iterator yields the inputs in order, BatchSize rows at a time.
NumBatches(n) == (n + BatchSize - 1) \div BatchSize

BatchRows(j, n) ==
  LET lo == (j - 1) * BatchSize + 1
      hi == IF j * BatchSize < n THEN j * BatchSize ELSE n
  IN  [r \in 1..(hi - lo + 1) |-> lo + r - 1]

\* One image as the iterator yields it: transformed by xform, cropped to bbox and
\* standardized with the standardizer's test-time colour vector cv.  No transform
\* and the identity transform, and no colour vector and the zero colour vector,
\* leave the image as it is.
Prepared(v, xf, bb, cv) ==
  v + 10 * (IF xf = NoXform THEN 0 ELSE xf)
    + 100 * bb
    + 10000 * (IF cv = NoColorVec THEN 0 ELSE cv)

\* prediction_iterator(X, xform=.., crop_bbox=..): its j-th batch
IterBatch(x, j, xf, bb, cv) ==
  LET rows == BatchRows(j, Len(x))
  IN  [r \in 1..Len(rows) |-> Prepared(x[rows[r]], xf, bb, cv)]

\* The network with the restored weights, on one image.
Net(v) == <<2 * v + 1, 1>>

\* sess.run(self.predictions, feed_dict={self.inputs: X}) on one batch
SessRun(bt) == [r \in 1..Len(bt) |-> Net(bt[r])]

\* standardizer.da_processing_params(): a dict, here a set of <<name, value>>
ParamNames == {"sigma", "gamma"}
DaParamChoices == {{<<n, 1>> : n \in D} : D \in SUBSET ParamNames}

Keys(d) == {p[1] : p \in d}
Get(d, key, default) == IF key \in Keys(d) THEN (CHOOSE p \in d : p[1] = key)[2] ELSE default

\* util.veryify_args(actual, allowed, msg): the unknown names; raises when any
VerifyArgs(actual, allowed) == Keys(actual) \ allowed

\* tta.build_quasirandom_transforms(n, color_sigma=.., **aug_params): n transforms
\* and n colour vectors; the transforms are all the identity when aug_params
\* allow no change, the colour vectors are zero when color_sigma is 0.
QuasirandomTransforms(n, color_sigma) ==
  {<<t, [j \in 1..n |-> j * color_sigma]>> :
     t \in {[j \in 1..n |-> IdentityXform], [j \in 1..n |-> j]}}

\* util.get_bbox_10crop(crop_size, im_size): the ten boxes, in layout order
GetBbox10Crop == [j \in 1..TenCrop |-> j]

\* zip(tfs, color_vecs): as long as the shorter
ZipLen(s, t) == IF Len(s) < Len(t) THEN Len(s) ELSE Len(t)

\* ------------------------------------------------------------------ numpy
Reverse(s) == [j \in 1..Len(s) |-> s[Len(s) + 1 - j]]

\* mutant: the batches are stacked last to first
Vstack_Reversed(dp) == Arr(Flatten(Reverse(dp)))

\* np.vstack(data_predictions): the rows of the batches, in list order
Vstack(dp) == Arr(Flatten(dp))

\* mutant: np.mean without axis=0, the mean of all the elements
Mean_NoAxis(arrs) ==
  IF arrs = <<>> \/ \E m \in 1..Len(arrs) : arrs[m].tag # "array"
  THEN NaN
  ELSE LET all == Flatten([m \in 1..Len(arrs) |-> arrs[m].rows])
       IN  Arr(<<RatDivInt(RatSum(all), Len(all))>>)

\* np.mean(list_of_arrays, axis=0); nan for an empty list or a list of scalars
Mean(arrs) ==
  IF arrs = <<>> \/ \E m \in 1..Len(arrs) : arrs[m].tag # "array"
  THEN NaN
  ELSE Arr([r \in 1..Len(arrs[1].rows) |->
              RatDivInt(RatSum([m \in 1..Len(arrs) |-> arrs[m].rows[r]]), Len(arrs))])

\* np.array(multiple_predictions, dtype=np.float32) succeeds on arrays of one
\* shape, and on scalars (None becomes nan)
Stackable(mp) ==
  \/ \A m \in 1..Len(mp) : mp[m].tag = "array"
  \/ \A m \in 1..Len(mp) : mp[m].tag # "array"

\* scipy gmean(x, axis=0): kept as the term gmean(column)
GMean(arrs) ==
  IF arrs = <<>> \/ \E m \in 1..Len(arrs) : arrs[m].tag # "array"
  THEN NaN
  ELSE Arr([r \in 1..Len(arrs[1].rows) |->
              <<"gmean", [m \in 1..Len(arrs) |-> arrs[m].rows[r]]>>])

\* x + (x == 0): an exact zero becomes 1
ZeroGuard(p) == IF p[1] = 0 THEN <<1, 1>> ELSE p

\* np.mean(np.log(x + (x==0)), axis=0): kept as the term mean(log(column))
LogMean(arrs) ==
  IF arrs = <<>> \/ \E m \in 1..Len(arrs) : arrs[m].tag # "array"
  THEN NaN
  ELSE Arr([r \in 1..Len(arrs[1].rows) |->
              <<"mean_log", [m \in 1..Len(arrs) |-> ZeroGuard(arrs[m].rows[r])]>>])

EnsembleNames == {"mean", "gmean", "log_mean"}

\* the dict literal of _ensemble: all three entries are computed
EnsembleTable(x) ==
  [n \in EnsembleNames |->
     IF n = "mean" THEN Mean(x) ELSE IF n = "gmean" THEN GMean(x) ELSE LogMean(x)]

\* mutant: an unknown name falls back to the mean
Ensemble_DefaultsToMean(en_type, x) ==
  IF en_type \in DOMAIN EnsembleTable(x)
  THEN [err |-> "", val |-> EnsembleTable(x)[en_type]]
  ELSE [err |-> "", val |-> Mean(x)]

\* _ensemble(en_type, x): the entry, or KeyError
Ensemble(en_type, x) ==
  IF en_type \in DOMAIN EnsembleTable(x)
  THEN [err |-> "", val |-> EnsembleTable(x)[en_type]]
  ELSE [err |-> "KeyError", val |-> None]

\* ----------------------------------------------------------------- inputs
Predictor(kind, n) == [kind |-> kind, n |-> n]
CropCounts == {0, 1, DefaultCrops}
TransformCounts == {1, MaxTransforms}
PredictorConfigs ==
  {Predictor("OneCrop", 0)}
    \cup {Predictor("Quasi", n) : n \in TransformCounts}
    \cup {Predictor("Crop", n) : n \in CropCounts}
PredictorLists == UNION {[1..n -> PredictorConfigs] : n \in 1..MaxPredictors}
Inputs == {[r \in 1..n |-> r] : n \in {0, 1, MaxInputs}}
EnsembleTypeArgs == EnsembleNames \cup {"median"}

\* ------------------------------------------------------------------- state
GanIdle ==
  /\ images = <<>>
  /\ generated_images = <<>>
  /\ num_batches = 1
  /\ gpc = "idle"
  /\ elems = <<>>
  /\ mapped = <<>>
  /\ gi = 0
  /\ logits = <<>>
  /\ real_a = <<>>
  /\ gen_a = <<>>
  /\ gerror = ""

PredIdle ==
  /\ X = <<>>
  /\ ensemble_type = ""
  /\ pc = "idle"
  /\ i = 0
  /\ multiple_predictions = <<>>
  /\ sess_open = 0
  /\ da_params = {}
  /\ tfs = <<>>
  /\ color_vecs = <<>>
  /\ bboxs = <<>>
  /\ k = 0
  /\ inner_predictions = <<>>
  /\ xform = NoXform
  /\ crop_bbox = NoBbox
  /\ b = 0
  /\ batch = <<>>
  /\ data_predictions = <<>>
  /\ runs = 0
  /\ ret = None
  /\ error = ""
  /\ tta = NoColorVec
  /\ log = <<>>

\* EnsemblePredictor.__init__: the member predictors, already constructed
Init ==
  /\ predictors \in PredictorLists
  /\ PredIdle
  /\ GanIdle

\* the member predictor of the current loop iteration
P == predictors[i]

\* mutant: the session is not closed when an exception leaves the with block
RaiseInWith_Leak(kind, lg) ==
  /\ sess_open' = sess_open
  /\ log' = lg
  /\ error' = kind
  /\ pc' = "raised"

\* an exception raised inside `with tf.Session() as sess:` leaves the with block:
\* Session.__exit__ closes the session and the exception goes on to the caller
\* of EnsemblePredictor.predict, which catches nothing.  lg is the log so far.
RaiseInWith(kind, lg) ==
  /\ sess_open' = sess_open - 1
  /\ log' = Append(lg, Event("release", i, 0, 0, 0))
  /\ error' = kind
  /\ pc' = "raised"

\* ------------------------------------------------- EnsemblePredictor.predict
\* mutant: ensemble_type is looked up on entry, before any member runs
EnsemblePredict_ChecksTypeFirst ==
  /\ pc = "idle"
  /\ \E x \in Inputs, t \in EnsembleTypeArgs :
       /\ X' = x
       /\ ensemble_type' = t
       /\ IF t \in EnsembleNames
          THEN pc' = "ens_for" /\ error' = error
          ELSE pc' = "raised" /\ error' = "KeyError"
  /\ multiple_predictions' = <<>>
  /\ i' = 0
  /\ UNCHANGED <<ganVars, predictors, sess_open, quasiVars, bboxs, loopVars, passVars, ret, tta, log>>

\* def predict(self, X, ensemble_type='mean'): the arguments are bound, the list
\* of member predictions starts empty
EnsemblePredict ==
  /\ pc = "idle"
  /\ \E x \in Inputs, t \in EnsembleTypeArgs :
       /\ X' = x
       /\ ensemble_type' = t
  /\ multiple_predictions' = <<>>
  /\ i' = 0
  /\ pc' = "ens_for"
  /\ UNCHANGED <<ganVars, predictors, sess_open, quasiVars, bboxs, loopVars, passVars, ret, error, tta, log>>

\* mutant: the members are run from the last to the first
EnsFor_Reversed ==
  /\ pc = "ens_for"
  /\ IF Len(multiple_predictions) < Len(predictors)
     THEN /\ i' = Len(predictors) - Len(multiple_predictions)
          /\ pc' = "predict"
     ELSE /\ i' = i
          /\ pc' = "ens_stack"
  /\ UNCHANGED <<ganVars, predictors, X, ensemble_type, multiple_predictions, sess_open,
                 quasiVars, bboxs, loopVars, passVars, ret, error, tta, log>>

\* for p in self.predictors: the next member in list order, and p.predict(X)
EnsFor ==
  /\ pc = "ens_for"
  /\ IF i < Len(predictors)
     THEN /\ i' = i + 1
          /\ pc' = "predict"
     ELSE /\ i' = i
          /\ pc' = "ens_stack"
  /\ UNCHANGED <<ganVars, predictors, X, ensemble_type, multiple_predictions, sess_open, quasiVars,
                 bboxs, loopVars, passVars, ret, error, tta, log>>

\* multiple_predictions.append(predictions); the member's frames are gone
EnsAppend ==
  /\ pc = "ens_append"
  /\ multiple_predictions' = Append(multiple_predictions, ret)
  /\ da_params' = {}
  /\ tfs' = <<>>
  /\ color_vecs' = <<>>
  /\ bboxs' = <<>>
  /\ k' = 0
  /\ inner_predictions' = <<>>
  /\ xform' = NoXform
  /\ crop_bbox' = NoBbox
  /\ b' = 0
  /\ batch' = <<>>
  /\ data_predictions' = <<>>
  /\ runs' = 0
  /\ pc' = "ens_for"
  /\ UNCHANGED <<ganVars, predictors, X, ensemble_type, i, sess_open, ret, error, tta, log>>

\* multiple_predictions = np.array(multiple_predictions, dtype=np.float32)
EnsStack ==
  /\ pc = "ens_stack"
  /\ IF Stackable(multiple_predictions)
     THEN /\ pc' = "ensemble"
          /\ error' = error
     ELSE /\ pc' = "raised"
          /\ error' = "ValueError"
  /\ UNCHANGED <<ganVars, ensVars, sess_open, quasiVars, bboxs, loopVars, passVars, ret, tta, log>>

\* return _ensemble(ensemble_type, multiple_predictions)
EnsEnsemble ==
  /\ pc = "ensemble"
  /\ LET r == Ensemble(ensemble_type, multiple_predictions)
     IN  IF r.err = ""
         THEN /\ ret' = r.val
              /\ pc' = "done"
              /\ error' = error
         ELSE /\ ret' = ret
              /\ pc' = "raised"
              /\ error' = r.err
  /\ log' = Append(log, Event("ensemble", 0, 0, 0, 0))
  /\ UNCHANGED <<ganVars, ensVars, sess_open, quasiVars, bboxs, loopVars, passVars, tta>>

\* ------------------------------------------------ PredictSessionMixin.predict
\* saver = tf.train.Saver(); with tf.Session() as sess: the session is opened
Predict ==
  /\ pc = "predict"
  /\ sess_open' = sess_open + 1
  /\ log' = Append(log, Event("acquire", i, 0, 0, 0))
  /\ pc' = "restore"
  /\ UNCHANGED <<ganVars, ensVars, quasiVars, bboxs, loopVars, passVars, ret, error, tta>>

\* saver.restore(sess, self.weights_from)
Restore ==
  /\ pc = "restore"
  /\ log' = Append(log, Event("restore", i, 0, 0, 0))
  /\ pc' = "real_predict"
  /\ UNCHANGED <<ganVars, ensVars, sess_open, quasiVars, bboxs, loopVars, passVars, ret, error, tta>>

\* saver.restore raises
RestoreFails ==
  /\ pc = "restore"
  /\ RaiseInWith("RestoreError", Append(log, Event("restore", i, 0, 0, 0)))
  /\ UNCHANGED <<ganVars, ensVars, quasiVars, bboxs, loopVars, passVars, ret, tta>>

\* return self._real_predict(X, sess) leaves the with block: Session.__exit__
\* closes the session and predict returns to EnsemblePredictor.predict
WithExit ==
  /\ pc = "with_exit"
  /\ sess_open' = sess_open - 1
  /\ log' = Append(log, Event("release", i, 0, 0, 0))
  /\ pc' = "ens_append"
  /\ UNCHANGED <<ganVars, ensVars, quasiVars, bboxs, loopVars, passVars, ret, error, tta>>

\* ------------------------------------------- OneCropPredictor._real_predict
\* entry of self.predictor._real_predict(X, sess, xform=xf, crop_bbox=bb):
\* data_predictions = [] and the prediction iterator is created
BeginPass(xf, bb) ==
  /\ xform' = xf
  /\ crop_bbox' = bb
  /\ b' = 0
  /\ batch' = <<>>
  /\ data_predictions' = <<>>
  /\ runs' = 0
  /\ log' = Append(log, Event("pass", i, xf, bb, tta))
  /\ pc' = "oc_for"

\* where a finished pass returns to: the caller's append, or predict's return
ReturnPc ==
  IF P.kind = "Quasi" THEN "q_append"
  ELSE IF P.kind = "Crop" /\ P.n > 1 THEN "c_append"
  ELSE "with_exit"

\* OneCropPredictor.predict -> self._real_predict(X, sess)
OneCropRealPredict ==
  /\ pc = "real_predict"
  /\ P.kind = "OneCrop"
  /\ BeginPass(NoXform, NoBbox)
  /\ UNCHANGED <<ganVars, ensVars, sess_open, quasiVars, bboxs, loopVars, ret, error, tta>>

\* for X, y in self.prediction_iterator(...): the iterator yields its next batch;
\* predictions_e = sess.run(...); data_predictions.append(predictions_e)
ForwardPass ==
  /\ pc = "oc_for"
  /\ b < NumBatches(Len(X))
  /\ b' = b + 1
  /\ batch' = IterBatch(X, b + 1, xform, crop_bbox, tta)
  /\ data_predictions' = Append(data_predictions, SessRun(batch'))
  /\ runs' = runs + 1
  /\ pc' = "oc_for"
  /\ UNCHANGED <<ganVars, ensVars, sess_open, quasiVars, bboxs, loopVars, xform, crop_bbox, ret, error,
                 tta, log>>

\* the iterator yields its next batch and sess.run raises
ForwardFails ==
  /\ pc = "oc_for"
  /\ b < NumBatches(Len(X))
  /\ b' = b + 1
  /\ batch' = IterBatch(X, b + 1, xform, crop_bbox, tta)
  /\ runs' = runs + 1
  /\ RaiseInWith("ForwardError", log)
  /\ UNCHANGED <<ganVars, ensVars, quasiVars, bboxs, loopVars, xform, crop_bbox, data_predictions, ret, tta>>

\* the iterator raises instead of yielding or ending
IterFails ==
  /\ pc = "oc_for"
  /\ RaiseInWith("IteratorError", log)
  /\ UNCHANGED <<ganVars, ensVars, quasiVars, bboxs, loopVars, passVars, ret, tta>>

\* the iterator is exhausted: data_predictions = np.vstack(data_predictions);
\* return data_predictions (np.vstack raises ValueError on an empty list)
VstackReturn ==
  /\ pc = "oc_for"
  /\ b >= NumBatches(Len(X))
  /\ IF data_predictions = <<>>
     THEN /\ RaiseInWith("ValueError", log)
          /\ ret' = ret
     ELSE /\ ret' = Vstack(data_predictions)
          /\ pc' = ReturnPc
          /\ UNCHANGED <<sess_open, error, log>>
  /\ UNCHANGED <<ganVars, ensVars, quasiVars, bboxs, loopVars, passVars, tta>>

\* --------------------------------------------- QuasiPredictor._real_predict
\* standardizer = ...; da_params = standardizer.da_processing_params()
QuasiParams ==
  /\ pc = "real_predict"
  /\ P.kind = "Quasi"
  /\ da_params' \in DaParamChoices
  /\ pc' = "q_verify"
  /\ UNCHANGED <<ganVars, ensVars, sess_open, tfs, color_vecs, bboxs, loopVars, passVars, ret, error,
                 tta, log>>

\* mutant: the parameters are not verified
QuasiVerify_Skipped ==
  /\ pc = "q_verify"
  /\ pc' = "q_build"
  /\ UNCHANGED <<ganVars, ensVars, sess_open, quasiVars, bboxs, loopVars, passVars, ret, error,
                 tta, log>>

\* util.veryify_args(da_params, ['sigma'], ...)
QuasiVerify ==
  /\ pc = "q_verify"
  /\ IF VerifyArgs(da_params, {"sigma"}) # {}
     THEN RaiseInWith("ConfigurationError", log)
     ELSE /\ pc' = "q_build"
          /\ UNCHANGED <<sess_open, error, log>>
  /\ UNCHANGED <<ganVars, ensVars, quasiVars, bboxs, loopVars, passVars, ret, tta>>

\* color_sigma = da_params.get('sigma', 0.0); tfs, color_vecs = build_...;
\* multiple_predictions = []
QuasiBuild ==
  /\ pc = "q_build"
  /\ LET color_sigma == Get(da_params, "sigma", 0)
     IN  \E tc \in QuasirandomTransforms(P.n, color_sigma) :
           /\ tfs' = tc[1]
           /\ color_vecs' = tc[2]
  /\ inner_predictions' = <<>>
  /\ k' = 0
  /\ log' = Append(log, Event("build", i, P.n, 0, 0))
  /\ pc' = "q_for"
  /\ UNCHANGED <<ganVars, ensVars, sess_open, da_params, bboxs, passVars, ret, error, tta>>

\* for i, (xform, color_vec) in enumerate(zip(tfs, color_vecs), start=1);
\* after the loop: return np.mean(multiple_predictions, axis=0)
QuasiFor ==
  /\ pc = "q_for"
  /\ IF k < ZipLen(tfs, color_vecs)
     THEN /\ k' = k + 1
          /\ pc' = "q_set_tta"
          /\ ret' = ret
     ELSE /\ k' = k
          /\ ret' = Mean(inner_predictions)
          /\ pc' = "with_exit"
  /\ UNCHANGED <<ganVars, ensVars, sess_open, quasiVars, bboxs, inner_predictions, passVars, error,
                 tta, log>>

\* mutant: every pass gets the first colour vector
QuasiSetTta_FirstVector ==
  /\ pc = "q_set_tta"
  /\ tta' = color_vecs[1]
  /\ log' = Append(log, Event("set_tta", i, color_vecs[1], 0, 0))
  /\ pc' = "q_call"
  /\ UNCHANGED <<ganVars, ensVars, sess_open, quasiVars, bboxs, loopVars, passVars, ret, error>>

\* standardizer.set_tta_args(color_vec=color_vec)
QuasiSetTta ==
  /\ pc = "q_set_tta"
  /\ tta' = color_vecs[k]
  /\ log' = Append(log, Event("set_tta", i, color_vecs[k], 0, 0))
  /\ pc' = "q_call"
  /\ UNCHANGED <<ganVars, ensVars, sess_open, quasiVars, bboxs, loopVars, passVars, ret, error>>

\* predictions = self.predictor._real_predict(X, sess, xform=xform)
QuasiCall ==
  /\ pc = "q_call"
  /\ BeginPass(tfs[k], NoBbox)
  /\ UNCHANGED <<ganVars, ensVars, sess_open, quasiVars, bboxs, loopVars, ret, error, tta>>

\* multiple_predictions.append(predictions)
QuasiAppend ==
  /\ pc = "q_append"
  /\ inner_predictions' = Append(inner_predictions, ret)
  /\ pc' = "q_for"
  /\ UNCHANGED <<ganVars, ensVars, sess_open, quasiVars, bboxs, k, passVars, ret, error, tta, log>>

\* ---------------------------------------------- CropPredictor._real_predict
\* if self.number_of_crops > 1: bboxs = util.get_bbox_10crop(...);
\* elif self.number_of_crops == 1: the single pass; otherwise the function ends
\* and returns None
CropRealPredict ==
  /\ pc = "real_predict"
  /\ P.kind = "Crop"
  /\ IF P.n > 1
     THEN /\ bboxs' = GetBbox10Crop
          /\ inner_predictions' = <<>>
          /\ k' = 0
          /\ pc' = "c_for"
          /\ UNCHANGED <<passVars, ret, log>>
     ELSE IF P.n = 1
     THEN /\ BeginPass(NoXform, NoBbox)
          /\ UNCHANGED <<bboxs, loopVars, ret>>
     ELSE /\ ret' = None
          /\ pc' = "with_exit"
          /\ UNCHANGED <<bboxs, loopVars, passVars, log>>
  /\ UNCHANGED <<ganVars, ensVars, sess_open, quasiVars, error, tta>>

\* for i, bbox in enumerate(bboxs, start=1); after the loop:
\* return np.mean(multiple_predictions, axis=0)
CropFor ==
  /\ pc = "c_for"
  /\ IF k < Len(bboxs)
     THEN /\ k' = k + 1
          /\ pc' = "c_call"
          /\ ret' = ret
     ELSE /\ k' = k
          /\ ret' = Mean(inner_predictions)
          /\ pc' = "with_exit"
  /\ UNCHANGED <<ganVars, ensVars, sess_open, quasiVars, bboxs, inner_predictions, passVars, error,
                 tta, log>>

\* predictions = self.predictor._real_predict(X, sess, crop_bbox=bbox)
CropCall ==
  /\ pc = "c_call"
  /\ BeginPass(NoXform, bboxs[k])
  /\ UNCHANGED <<ganVars, ensVars, sess_open, quasiVars, bboxs, loopVars, ret, error, tta>>

\* multiple_predictions.append(predictions)
CropAppend ==
  /\ pc = "c_append"
  /\ inner_predictions' = Append(inner_predictions, ret)
  /\ pc' = "c_for"
  /\ UNCHANGED <<ganVars, ensVars, sess_open, quasiVars, bboxs, k, passVars, ret, error, tta, log>>

\* ----------------------------------------------------------- specification
Next ==
  \/ EnsemblePredict
  \/ EnsFor
  \/ EnsAppend
  \/ EnsStack
  \/ EnsEnsemble
  \/ Predict
  \/ Restore
  \/ RestoreFails
  \/ WithExit
  \/ OneCropRealPredict
  \/ ForwardPass
  \/ ForwardFails
  \/ IterFails
  \/ VstackReturn
  \/ QuasiParams
  \/ QuasiVerify
  \/ QuasiBuild
  \/ QuasiFor
  \/ QuasiSetTta
  \/ QuasiCall
  \/ QuasiAppend
  \/ CropRealPredict
  \/ CropFor
  \/ CropCall
  \/ CropAppend

Spec == Init /\ [][Next]_vars

\* ============================================================ gan_metrics
\* An image is one pixel value; classifier_fn maps a chunk of images to one
\* activation row per image, each row a function of its image alone.
PixelValues == {1, 2}
ImageBatches == UNION {[1..n -> PixelValues] : n \in 1..MaxImages}
NumBatchesArgs == 1..MaxBatches

Classify(v) == <<3 * v, v + 1>>

ClassifierFn(chunk) == [r \in 1..Len(chunk) |-> Classify(chunk[r])]

\* mutant: chunk j takes every n-th element, starting at the j-th
Split_Strided(s, n) ==
  LET sz == Len(s) \div n
  IN  [j \in 1..n |-> [r \in 1..sz |-> s[(r - 1) * n + j]]]

\* tf.split(value, num_or_size_splits=n): n equal chunks along axis 0, in order
\* (defined when n divides the length)
Split(s, n) ==
  LET sz == Len(s) \div n
  IN  [j \in 1..n |-> SubSeq(s, (j - 1) * sz + 1, j * sz)]

\* tf.stack(list): one tensor whose j-th slice is the j-th element; the elements
\* must have one shape
CanStack(l) == \A j \in 1..Len(l) : Len(l[j]) = Len(l[1])

\* tf.concat(tf.unstack(t), 0): the slices of t, joined in order
ConcatUnstack(t) == Flatten(t)

\* mutant: the two parts come back in the other order
SplitSizes_Swapped(t, n1, n2) == <<SubSeq(t, n1 + 1, n1 + n2), SubSeq(t, 1, n1)>>

\* tf.split(value, [n1, n2], 0): the first n1 slices and the next n2
SplitSizes(t, n1, n2) == <<SubSeq(t, 1, n1), SubSeq(t, n1 + 1, n1 + n2)>>

InitGan ==
  /\ predictors = <<>>
  /\ PredIdle
  /\ GanIdle

\* classifier_score(images, classifier_fn, num_batches):
\* generated_images_list = tf.split(...); elems = tf.stack(generated_images_list)
ClassifierScore ==
  /\ gpc = "idle"
  /\ \E im \in ImageBatches, n \in NumBatchesArgs :
       /\ images' = im
       /\ num_batches' = n
       /\ IF Len(im) % n # 0
          THEN /\ gerror' = "ValueError"
               /\ gpc' = "raised"
               /\ elems' = elems
          ELSE /\ elems' = Split(im, n)
               /\ gpc' = "cs_map"
               /\ gerror' = gerror
  /\ mapped' = <<>>
  /\ gi' = 0
  /\ UNCHANGED <<predVars, generated_images, logits, real_a, gen_a>>

\* tf.map_fn(fn=classifier_fn, elems=..., parallel_iterations=1): one slice
MapFn ==
  /\ gpc \in {"cs_map", "fd_map"}
  /\ gi < Len(elems)
  /\ mapped' = Append(mapped, ClassifierFn(elems[gi + 1]))
  /\ gi' = gi + 1
  /\ UNCHANGED <<predVars, images, generated_images, num_batches, gpc, elems, logits, real_a, gen_a,
                 gerror>>

\* logits = tf.concat(tf.unstack(logits), 0)
ClassifierScoreConcat ==
  /\ gpc = "cs_map"
  /\ gi = Len(elems)
  /\ logits' = ConcatUnstack(mapped)
  /\ gpc' = "cs_done"
  /\ UNCHANGED <<predVars, images, generated_images, num_batches, elems, mapped, gi, real_a, gen_a,
                 gerror>>

\* frechet_classifier_distance(real_images, generated_images, classifier_fn,
\* num_batches): the two tf.split calls and imgs = tf.stack(real + generated)
FrechetClassifierDistance ==
  /\ gpc = "idle"
  /\ \E re \in ImageBatches, ge \in ImageBatches, n \in NumBatchesArgs :
       /\ images' = re
       /\ generated_images' = ge
       /\ num_batches' = n
       /\ IF Len(re) % n # 0 \/ Len(ge) % n # 0
             \/ ~CanStack(Split(re, n) \o Split(ge, n))
          THEN /\ gerror' = "ValueError"
               /\ gpc' = "raised"
               /\ elems' = elems
          ELSE /\ elems' = Split(re, n) \o Split(ge, n)
               /\ gpc' = "fd_map"
               /\ gerror' = gerror
  /\ mapped' = <<>>
  /\ gi' = 0
  /\ UNCHANGED <<predVars, logits, real_a, gen_a>>

\* real_a, gen_a = tf.split(activations, [num_batches, num_batches], 0);
\* real_a = tf.concat(tf.unstack(real_a), 0); gen_a likewise
FrechetSplit ==
  /\ gpc = "fd_map"
  /\ gi = Len(elems)
  /\ LET parts == SplitSizes(mapped, num_batches, num_batches)
     IN  /\ real_a' = ConcatUnstack(parts[1])
         /\ gen_a' = ConcatUnstack(parts[2])
  /\ gpc' = "fd_done"
  /\ UNCHANGED <<predVars, images, generated_images, num_batches, elems, mapped, gi, logits, gerror>>

NextGan ==
  \/ ClassifierScore
  \/ MapFn
  \/ ClassifierScoreConcat
  \/ FrechetClassifierDistance
  \/ FrechetSplit

SpecGan == InitGan /\ [][NextGan]_vars

\* ================================================================== claims
\* the events of member m's predict call, in order
MemberLog(m) == SelectSeq(log, LAMBDA e : e.m = m)

\* member m's predict call has returned or raised
Ended(m) ==
  \/ m < i
  \/ m = i /\ pc \in {"ens_append", "ens_for", "ens_stack", "ensemble", "done", "raised"}

\* the positions inside `with tf.Session() as sess:`
InWith ==
  pc \in {"restore", "real_predict", "oc_for", "q_verify", "q_build", "q_for", "q_set_tta",
          "q_call", "q_append", "c_for", "c_call", "c_append", "with_exit"}

\* a _real_predict pass of the OneCropPredictor has just returned
PassReturned ==
  \/ pc \in {"q_append", "c_append"}
  \/ pc = "with_exit" /\ (P.kind = "OneCrop" \/ (P.kind = "Crop" /\ P.n = 1))

\* C1: every predict call of a member (OneCrop, Quasi or Crop) acquires exactly one
\* session, as its first step; restores the weights exactly once, as its second
\* step and so before any pass or sess.run; and releases the session exactly once,
\* as its last step, whether it returns or raises (restore, iterator or forward
\* pass failing).  A session is open exactly inside the with block, so none is
\* open once predict has returned or raised.
C1_SessionScopedToPredict ==
  /\ sess_open = (IF InWith THEN 1 ELSE 0)
  /\ runs > 0 => \E j \in 1..Len(log) : log[j].ev = "restore" /\ log[j].m = i
  /\ \A m \in 1..i :
       LET ml == MemberLog(m)
       IN  /\ \A j \in 1..Len(ml) :
                /\ (ml[j].ev = "acquire") <=> (j = 1)
                /\ (ml[j].ev = "restore") <=> (j = 2)
                /\ (ml[j].ev = "release") => (j = Len(ml) /\ Ended(m))
           /\ Ended(m) => (Len(ml) >= 3 /\ ml[Len(ml)].ev = "release")

\* a Crop member's predict raised on a failing forward pass, after at least one
\* good one, and its session is closed
C1_Witness ==
  /\ pc = "raised"
  /\ error = "ForwardError"
  /\ P.kind = "Crop"
  /\ runs >= 2
  /\ sess_open = 0
  /\ log[Len(log)] = Event("release", i, 0, 0, 0)

\* C2: a OneCropPredictor pass runs one forward pass per batch the iterator
\* yields, in the iterator's order, and returns the per-batch predictions stacked
\* in that order: row r of the result is the prediction for input r.
C2_OneCropPredictsInInputOrder ==
  /\ pc = "oc_for" =>
       /\ runs = b
       /\ Len(data_predictions) = b
       /\ \A j \in 1..b :
            data_predictions[j] = SessRun(IterBatch(X, j, xform, crop_bbox, tta))
  /\ PassReturned =>
       /\ runs = NumBatches(Len(X))
       /\ runs >= 1
       /\ ret = Arr([r \in 1..Len(X) |-> Net(Prepared(X[r], xform, crop_bbox, tta))])

\* OneCropPredictor.predict returned the predictions of two batches
C2_Witness ==
  /\ pc = "with_exit"
  /\ P.kind = "OneCrop"
  /\ runs >= 2
  /\ Len(ret.rows) = Len(X)
  /\ ret.rows[1] # ret.rows[2]

\* C3: EnsemblePredictor.predict runs the members one after another in list order;
\* a member's predict call (acquire, restore, passes, release) is over before the
\* next member's begins, at most one session is open at any time and none is open
\* outside a member's with block, so none when the ensemble call has ended.
C3_EnsembleRunsMembersInTurn ==
  /\ sess_open <= 1
  /\ ~InWith => sess_open = 0
  /\ Len(multiple_predictions) \in {i - 1, i}
  /\ pc \in {"ens_stack", "ensemble", "done"} => Len(multiple_predictions) = Len(predictors)
  /\ \A j \in 1..Len(log) :
       log[j].m >= 1 =>
         IF j = 1
         THEN log[j].m = 1 /\ log[j].ev = "acquire"
         ELSE \/ log[j].m = log[j - 1].m /\ log[j - 1].ev # "release"
              \/ /\ log[j].m = log[j - 1].m + 1
                 /\ log[j - 1].ev = "release"
                 /\ log[j].ev = "acquire"

\* an ensemble of two members has returned: both sessions were opened and closed
C3_Witness ==
  /\ pc = "done"
  /\ Len(predictors) = 2
  /\ sess_open = 0
  /\ Len(SelectSeq(log, LAMBDA e : e.ev = "release")) = 2
  /\ Len(SelectSeq(log, LAMBDA e : e.ev = "acquire")) = 2

\* C4: once the members' predictions are stacked and _ensemble is called, the call
\* returns the combined array of the named rule when ensemble_type is 'mean',
\* 'gmean' or 'log_mean', and fails with the lookup's KeyError (the configuration
\* error) for any other name; with another name the call never returns.
C4_EnsembleTypeDecides ==
  /\ pc = "done" =>
       /\ ensemble_type \in {"mean", "gmean", "log_mean"}
       /\ error = ""
       /\ ret = (IF ensemble_type = "mean" THEN Mean(multiple_predictions)
                 ELSE IF ensemble_type = "gmean" THEN GMean(multiple_predictions)
                 ELSE LogMean(multiple_predictions))
  /\ (log # <<>> /\ log[Len(log)].ev = "ensemble") =>
       IF ensemble_type \in {"mean", "gmean", "log_mean"}
       THEN pc = "done"
       ELSE pc = "raised" /\ error = "KeyError"

\* two members returned and the ensemble call failed on the name 'median'
C4_Witness ==
  /\ pc = "raised"
  /\ error = "KeyError"
  /\ ensemble_type = "median"
  /\ Len(multiple_predictions) = 2
  /\ log[Len(log)].ev = "ensemble"

\* C5: QuasiPredictor._real_predict verifies da_processing_params() before
\* anything else: when it is about to verify, the predict call has only acquired
\* the session and restored; with a parameter name other than 'sigma' the call
\* goes no further than the verification, fails with the configuration error,
\* and has generated no transform, called set_tta_args never and run no pass.
C5_QuasiVerifiesFirst ==
  /\ pc = "q_verify" =>
       MemberLog(i) = <<Event("acquire", i, 0, 0, 0), Event("restore", i, 0, 0, 0)>>
  /\ VerifyArgs(da_params, {"sigma"}) # {} =>
       /\ pc \in {"q_verify", "raised"}
       /\ pc = "raised" => error = "ConfigurationError"
       /\ tfs = <<>> /\ color_vecs = <<>>
       /\ runs = 0
       /\ \A j \in 1..Len(log) :
            log[j].m = i => log[j].ev \in {"acquire", "restore", "release"}

\* a Quasi member with the parameters sigma and gamma failed in the verification
C5_Witness ==
  /\ pc = "raised"
  /\ error = "ConfigurationError"
  /\ da_params = {<<"sigma", 1>>, <<"gamma", 1>>}
  /\ P.kind = "Quasi"
  /\ sess_open = 0

RECURSIVE SumSeq(_)
SumSeq(s) == IF s = <<>> THEN 0 ELSE s[1] + SumSeq(Tail(s))

\* the prediction of every input, prepared with transform xf, box bb, colour cv
ExpectedPass(x, xf, bb, cv) == Arr([r \in 1..Len(x) |-> Net(Prepared(x[r], xf, bb, cv))])

\* Quasi's events after the build: set_tta_args(cv_j) then pass j with transform j
QuasiEvents(m, tf, cv) ==
  [j \in 1..(2 * Len(tf)) |->
     IF j % 2 = 1
     THEN Event("set_tta", m, cv[(j + 1) \div 2], 0, 0)
     ELSE Event("pass", m, tf[j \div 2], NoBbox, cv[j \div 2])]

InQuasi ==
  /\ i >= 1
  /\ P.kind = "Quasi"
  /\ pc \in {"q_for", "q_set_tta", "q_call", "oc_for", "q_append", "with_exit"}

\* C6: a QuasiPredictor predict call with number_of_transforms = N generates the
\* N (transform, colour vector) pairs once; then, inside its one session, for
\* k = 1..N in turn calls set_tta_args with the k-th colour vector and runs one
\* full pass with the k-th transform; it returns the elementwise arithmetic mean
\* of the N prediction arrays.
C6_QuasiRunsNPasses ==
  InQuasi =>
    LET ml == MemberLog(i)
        setDone == IF pc = "q_set_tta" THEN k - 1 ELSE k
        passDone == IF pc \in {"q_set_tta", "q_call"} THEN k - 1 ELSE k
    IN  /\ Len(tfs) = P.n /\ Len(color_vecs) = P.n
        /\ ml = <<Event("acquire", i, 0, 0, 0), Event("restore", i, 0, 0, 0),
                  Event("build", i, P.n, 0, 0)>>
                \o SubSeq(QuasiEvents(i, tfs, color_vecs), 1, setDone + passDone)
        /\ sess_open = 1
        /\ \A j \in 1..Len(inner_predictions) :
             inner_predictions[j] = ExpectedPass(X, tfs[j], NoBbox, color_vecs[j])
        /\ pc = "with_exit" =>
             /\ k = P.n
             /\ Len(inner_predictions) = P.n
             /\ ret.tag = "array"
             /\ Len(ret.rows) = Len(X)
             /\ \A r \in 1..Len(X) :
                  ret.rows[r] =
                    Rat(SumSeq([j \in 1..P.n |->
                                  Net(Prepared(X[r], tfs[j], NoBbox, color_vecs[j]))[1]]),
                        P.n)

\* a Quasi member with two different transforms and colour vectors is returning
\* the mean of its two passes over two inputs
C6_Witness ==
  /\ pc = "with_exit"
  /\ P = Predictor("Quasi", 2)
  /\ tfs = <<1, 2>>
  /\ color_vecs = <<1, 2>>
  /\ Len(X) = 2
  /\ Len(inner_predictions) = 2
  /\ inner_predictions[1] # inner_predictions[2]
\* the passes member m's predict call began, in order
PassEvents(m) == SelectSeq(log, LAMBDA e : e.m = m /\ e.ev = "pass")

\* what a test-time colour vector does to an image: none and zero do nothing
JitterEffect(cv) == IF cv = NoColorVec THEN 0 ELSE cv

\* C7 as claimed: a QuasiPredictor.predict with number_of_transforms = 1 whose
\* transform is the identity returns the same array as a OneCropPredictor.predict
\* on the same input, weights and prediction iterator.
C7_QuasiIdentityEqualsOneCrop_Claimed ==
  \A m1, m2 \in 1..Len(multiple_predictions) :
    ( /\ predictors[m1].kind = "OneCrop"
      /\ predictors[m2] = Predictor("Quasi", 1)
      /\ PassEvents(m2)[1].a = IdentityXform )
    => multiple_predictions[m1] = multiple_predictions[m2]

\* C7 amended: they return the same array when, besides, the colour vector the
\* Quasi call generated and set has the same effect as the one the standardizer
\* held during the OneCropPredictor call (both zero or unset, or the same vector).
C7_QuasiIdentityEqualsOneCrop ==
  \A m1, m2 \in 1..Len(multiple_predictions) :
    ( /\ predictors[m1].kind = "OneCrop"
      /\ predictors[m2] = Predictor("Quasi", 1)
      /\ PassEvents(m2)[1].a = IdentityXform
      /\ JitterEffect(PassEvents(m2)[1].c) = JitterEffect(PassEvents(m1)[1].c) )
    => multiple_predictions[m1] = multiple_predictions[m2]

\* OneCropPredictor.predict ran on a fresh standardizer, then QuasiPredictor.predict
\* with one identity transform and a zero colour vector, on two inputs: same array
C7_Witness ==
  /\ predictors = <<Predictor("OneCrop", 0), Predictor("Quasi", 1)>>
  /\ Len(multiple_predictions) = 2
  /\ Len(X) = 2
  /\ PassEvents(1)[1].c = NoColorVec
  /\ PassEvents(2)[1].a = IdentityXform
  /\ PassEvents(2)[1].c = 0
  /\ multiple_predictions[1] = multiple_predictions[2]

\* C8 as claimed: CropPredictor.predict returns a prediction array for every
\* number_of_crops; with 1 it is the one pass without a crop box, unchanged; with
\* more than 1 it is the elementwise mean of one pass per box of the 10-crop
\* layout, run in layout order.
C8_CropReturnsArray_Claimed ==
  (pc = "with_exit" /\ P.kind = "Crop") =>
    /\ ret.tag = "array"
    /\ P.n = 1 =>
         /\ PassEvents(i) = <<Event("pass", i, NoXform, NoBbox, tta)>>
         /\ ret = ExpectedPass(X, NoXform, NoBbox, tta)
    /\ P.n > 1 =>
         /\ PassEvents(i) = [j \in 1..TenCrop |-> Event("pass", i, NoXform, GetBbox10Crop[j], tta)]
         /\ Len(ret.rows) = Len(X)
         /\ \A r \in 1..Len(X) :
              ret.rows[r] =
                Rat(SumSeq([j \in 1..TenCrop |->
                              Net(Prepared(X[r], NoXform, GetBbox10Crop[j], tta))[1]]),
                    TenCrop)
\* C9: classifier_score's logits do not depend on num_batches: for every
\* num_batches that divides the batch, the chunks are classified in order and the
\* concatenated logits hold row r = the classifier's output for image r, which
\* is the matrix num_batches = 1 gives; the score is computed from it alone.
C9_LogitsInvariantToNumBatches ==
  /\ gpc = "cs_map" =>
       /\ Len(images) % num_batches = 0
       /\ Len(mapped) = gi
  /\ gpc = "cs_done" =>
       /\ Len(logits) = Len(images)
       /\ \A r \in 1..Len(images) : logits[r] = Classify(images[r])

\* four images, not all alike, were scored in two chunks
C9_Witness ==
  /\ gpc = "cs_done"
  /\ num_batches = 2
  /\ images = <<1, 2, 1, 1>>
  /\ Len(logits) = 4

\* C10: in frechet_classifier_distance, after the combined pass and the split,
\* real_a holds row r = the activation of real image r and gen_a holds row r =
\* the activation of generated image r, for every num_batches that divides the
\* batch size.
C10_FrechetActivationsBySource ==
  /\ gpc = "fd_map" =>
       /\ Len(images) % num_batches = 0
       /\ Len(generated_images) = Len(images)
       /\ Len(elems) = 2 * num_batches
  /\ gpc = "fd_done" =>
       /\ Len(real_a) = Len(images)
       /\ Len(gen_a) = Len(generated_images)
       /\ \A r \in 1..Len(images) : real_a[r] = Classify(images[r])
       /\ \A r \in 1..Len(generated_images) : gen_a[r] = Classify(generated_images[r])

\* four real and four generated images, different, went through in 2 + 2 chunks
C10_Witness ==
  /\ gpc = "fd_done"
  /\ num_batches = 2
  /\ images = <<1, 2, 1, 1>>
  /\ generated_images = <<2, 2, 1, 2>>
  /\ real_a # gen_a

\* the colour-jitter vectors member m's predict call generated and handed to
\* standardizer.set_tta_args
SetTtaVectors(m) == {log[j].a : j \in {n \in 1..Len(log) : log[n].ev = "set_tta" /\ log[n].m = m}}

\* member m is a QuasiPredictor whose predict call has returned its array
QuasiReturned(m) ==
  /\ m \in 1..Len(multiple_predictions)
  /\ predictors[m].kind = "Quasi"

\* C11 as claimed: once a QuasiPredictor predict call has returned, nothing that
\* outlives the call holds a transform or colour-jitter vector the call generated:
\* the call's transform and colour-vector lists are gone and the standardizer's
\* test-time-augmentation arguments are not a vector the call set.
C11_TransformsNotPersisted_Claimed ==
  (pc = "ens_for" /\ QuasiReturned(i)) =>
    /\ tfs = <<>>
    /\ color_vecs = <<>>
    /\ tta \notin SetTtaVectors(i)

\* what the code does keep to: after the return the lists of the call are gone,
\* and the standardizer holds the colour vector of the call's last pass
C11_LastVectorStaysSet ==
  (pc = "ens_for" /\ QuasiReturned(i)) =>
    /\ tfs = <<>>
    /\ color_vecs = <<>>
    /\ SetTtaVectors(i) # {}
    /\ tta \in SetTtaVectors(i)
    /\ \E j \in 1..Len(log) :
         /\ log[j] = Event("set_tta", i, tta, 0, 0)
         /\ \A n \in (j + 1)..Len(log) : log[n].ev # "set_tta"

\* the number of events ev in member m's predict call
Count(m, ev) == Len(SelectSeq(log, LAMBDA e : e.m = m /\ e.ev = ev))

\* member m's predict call opened a session, restored and closed it, once each,
\* the close being the call's last event
RanOnce(m) ==
  /\ Count(m, "acquire") = 1
  /\ Count(m, "restore") = 1
  /\ Count(m, "release") = 1
  /\ MemberLog(m)[Len(MemberLog(m))].ev = "release"

\* C12: EnsemblePredictor.predict looks ensemble_type up only in _ensemble, after
\* the loop over the members: when it is looked up every member's predict call
\* has run exactly once (session opened, restored, closed) and returned its
\* prediction, and no session is open; with an unrecognized ensemble_type the
\* call never returns, and its KeyError comes only from that lookup, so after
\* every member ran exactly once and with no session open.
C12_EnsembleTypeExaminedLast ==
  /\ (pc = "ensemble" \/ \E j \in 1..Len(log) : log[j].ev = "ensemble") =>
       /\ i = Len(predictors)
       /\ Len(multiple_predictions) = Len(predictors)
       /\ \A m \in 1..Len(predictors) : RanOnce(m)
       /\ sess_open = 0
  /\ \A j \in 1..Len(log) : log[j].ev = "ensemble" => j = Len(log)
  /\ error = "KeyError" =>
       /\ pc = "raised"
       /\ ensemble_type \notin EnsembleNames
       /\ log # <<>> /\ log[Len(log)].ev = "ensemble"
       /\ \A m \in 1..Len(predictors) : RanOnce(m)
       /\ sess_open = 0
  /\ pc = "done" => ensemble_type \in EnsembleNames

\* the call with the name 'median' failed after a QuasiPredictor and a
\* CropPredictor had each run their full session cycle, the first with two passes
C12_Witness ==
  /\ pc = "raised"
  /\ error = "KeyError"
  /\ ensemble_type = "median"
  /\ Len(predictors) = 2
  /\ predictors[1].kind = "Quasi" /\ predictors[1].n = 2
  /\ predictors[2].kind = "Crop"
  /\ RanOnce(1) /\ RanOnce(2)
  /\ Count(1, "pass") = 2
  /\ sess_open = 0

====
